---------------------------- MODULE Spec2Model ----------------------------
(***************************************************************************)
(* Model of the routing core of neo4rs:                                    *)
(*   - RoundRobinStrategy   (routing/load_balancing/round_robin_strategy.rs)*)
(*   - ConnectionRegistry   (routing/connection_registry.rs)               *)
(*   - RoutedConnectionManager (routing/routed_connection_manager.rs)      *)
(*                                                                         *)
(* Specifications sharing the module:                                      *)
(*   SpecRR : threads calling select_reader / select_writer /              *)
(*            select_router on one RoundRobinStrategy, each atomic         *)
(*            operation of select being one step;                          *)
(*   Spec   : tasks calling RoutedConnectionManager::get on one manager;   *)
(*   FairSpec : Spec with every task scheduled again and again;            *)
(*   FairSolo : one fairly scheduled get call among evictions by others;   *)
(*   SpecNew  : ConnectionRegistry::new building a registry from a table;  *)
(*   SpecRoute: a Route request being serialized;                          *)
(*   SpecParse: a Route response being parsed;                             *)
(*   SpecConfig: a ConfigBuilder being set up and built.                   *)
(***************************************************************************)
EXTENDS Integers, Sequences, FiniteSets, TLC

(***************************************************************************)
(* Bounds of the model.                                                    *)
(***************************************************************************)
\* number of threads calling select_* concurrently (SpecRR)
NThreads == 2
\* number of select_* calls started in one behaviour (SpecRR)
MaxCalls == 4
\* the latest second the system clock shows (Spec)
MaxClock == 2
\* the longest bookmark list a Route request carries (SpecRoute)
MaxBookmarks == 2
\* the longest server list a Route response carries (SpecParse)
MaxServers == 2

(***************************************************************************)
(* Machine arithmetic.  usize and u64 arithmetic is modular; the modulus   *)
(* 2^64 is scaled down to 2^16, far above every length, counter and time   *)
(* the model reaches otherwise.                                            *)
(***************************************************************************)
UsizeMod == 2^16

\* a - b on an unsigned machine word without overflow checks
WrappingSub(a, b) == (a - b + UsizeMod) % UsizeMod

(***************************************************************************)
(* Topology model (routing/mod.rs).                                        *)
(***************************************************************************)
Roles == {"READ", "WRITE", "ROUTE"}

Server(a, r) == [addresses |-> <<a>>, role |-> r]

\* the servers of the repository's tests
reader1 == Server("host1:7687", "READ")
reader2 == Server("host2:7688", "READ")
writer1 == Server("host3:7687", "WRITE")
writer2 == Server("host4:7688", "WRITE")
router0 == Server("host0:7687", "ROUTE")
\* a third reader, for strategies built over more readers than a later list has
reader3 == Server("host5:7687", "READ")

RoutingTable(t, s) == [ttl |-> t, servers |-> s]

\* Iterator::filter(..).collect() of a server list
RECURSIVE FilterRole(_, _)
FilterRole(servers, role) ==
    IF servers = <<>> THEN <<>>
    ELSE LET rest == FilterRole(Tail(servers), role)
         IN  IF Head(servers).role = role THEN <<Head(servers)>> \o rest
             ELSE rest

\* every list obtained from a list by removing elements (order kept)
RECURSIVE SubLists(_)
SubLists(s) ==
    IF s = <<>> THEN {<<>>}
    ELSE LET rest == SubLists(Tail(s))
         IN  rest \cup {<<Head(s)>> \o r : r \in rest}

Range(s) == {s[i] : i \in 1..Len(s)}

(***************************************************************************)
(* RoundRobinStrategy.                                                     *)
(***************************************************************************)
VARIABLES
    overflow_checks, \* build profile: TRUE when integer overflow panics
    strategyTable,   \* the server list RoundRobinStrategy::new was given
    index,           \* reader_index, writer_index, router_index, by role
    sel,             \* per thread: the select call in progress
    last,            \* the most recent call that returned
    callRole,        \* the role whose select_* the threads call
    seqK,            \* number of calls that returned
    seqOK            \* all calls so far were sequential, on strategyTable

rrVars == <<overflow_checks, strategyTable, index, sel, last, callRole,
            seqK, seqOK>>

VARIABLES
    connections,    \* Registry: server -> pool (0: no entry)
    creation_time,  \* the value behind the creation_time mutex
    ttl,            \* ConnectionRegistry.ttl
    lock,           \* holder of the creation_time mutex (0: free)
    clock,          \* SystemTime::now() in seconds, as last read
    task,           \* per task: its get call
    hist,           \* registry and timestamp when the guard was acquired
    lastGood        \* server set of the last refresh that completed

mgrVars == <<connections, creation_time, ttl, lock, clock, task,
             hist, lastGood>>

VARIABLES
    arg,            \* the value a conversion is applied to
    ret             \* what the conversion made of it

fnVars == <<arg, ret>>

\* no conversion under way
NoValue == <<>>

vars == <<rrVars, mgrVars, fnVars>>

Threads == 1..NThreads

\* the tables of tests::should_get_next_server and tests::test_available_servers,
\* one with the roles intermixed and one with three readers
RRTables ==
    { <<reader1, reader2>>,
      <<reader1, reader2, writer1, writer2, router0>>,
      <<writer1, reader1, router0, reader2>>,
      <<reader1, reader2, reader3>> }

\* RoundRobinStrategy::new: every counter starts at the role's server count
RoundRobinStrategyNew(servers) ==
    [r \in Roles |-> Len(FilterRole(servers, r))]

\* AtomicUsize::compare_exchange(0, len): the counter afterwards
CompareExchange(c, len) == IF c = 0 THEN len ELSE c

\* AtomicUsize::fetch_sub(1): the counter afterwards (atomics wrap)
FetchSubNoDecrement(c) == c
FetchSub(c) == WrappingSub(c, 1)

\* servers.get(i - 1): TRUE when i - 1 overflows and the build checks it
IndexPanics(i, checks) == i = 0 /\ checks

\* Option<Server>: None is the empty sequence, Some(s) the sequence of s
None == <<>>
Some(s) == <<s>>

\* servers.get(i - 1): Some(element), or None when out of bounds
GetAt(servers, i) ==
    LET j == WrappingSub(i, 1)
    IN  IF j < Len(servers) THEN Some(servers[j + 1]) ELSE None

\* servers.last().cloned()
FirstOf(servers) ==
    IF servers = <<>> THEN None ELSE Some(servers[1])
LastOf(servers) ==
    IF servers = <<>> THEN None ELSE Some(servers[Len(servers)])

\* servers.is_empty()
is_empty_never(servers) == FALSE
is_empty(servers) == servers = <<>>

\* RoundRobinStrategy::select run without interruption on counter c:
\* the result, the counter afterwards, and whether the call panicked
select_unchecked(servers, c, checks) ==
    LET c1 == CompareExchange(c, Len(servers))
        i  == c1
        c2 == FetchSub(c1)
    IN  IF IndexPanics(i, checks)
        THEN [res |-> None, idx |-> c2, panic |-> TRUE]
        ELSE IF GetAt(servers, i) # None
             THEN [res |-> GetAt(servers, i), idx |-> c2, panic |-> FALSE]
             ELSE [res |-> LastOf(servers), idx |-> Len(servers),
                   panic |-> FALSE]

select(servers, c, checks) ==
    IF is_empty(servers) THEN [res |-> None, idx |-> c, panic |-> FALSE]
    ELSE LET c1 == CompareExchange(c, Len(servers))
             i  == c1
             c2 == FetchSub(c1)
         IN  IF IndexPanics(i, checks)
             THEN [res |-> None, idx |-> c2, panic |-> TRUE]
             ELSE IF GetAt(servers, i) # None
                  THEN [res |-> GetAt(servers, i), idx |-> c2, panic |-> FALSE]
                  ELSE [res |-> LastOf(servers), idx |-> Len(servers),
                        panic |-> FALSE]

select_reader(servers) == FilterRole(servers, "READ")
select_writer_unfiltered(servers) == servers
select_writer(servers) == FilterRole(servers, "WRITE")
select_router(servers) == FilterRole(servers, "ROUTE")

\* the candidate list select_<role> hands to select
Candidates(servers, role) ==
    CASE role = "READ"  -> select_reader(servers)
      [] role = "WRITE" -> select_writer(servers)
      [] role = "ROUTE" -> select_router(servers)

NoCall == [role |-> "none", cands |-> <<>>, res |-> None]
Idle == [pc |-> "idle", role |-> "none", cands |-> <<>>]
Panicked == [pc |-> "panicked", role |-> "none", cands |-> <<>>]
InSelect == {"cas", "sub", "store"}

InitRR ==
    /\ overflow_checks \in BOOLEAN
    /\ strategyTable \in RRTables
    /\ index = RoundRobinStrategyNew(strategyTable)
    /\ sel = [t \in Threads |-> Idle]
    /\ last = NoCall
    /\ callRole \in Roles
    /\ seqK = 0
    /\ seqOK = TRUE
    /\ connections = <<>>
    /\ creation_time = 0
    /\ ttl = 0
    /\ lock = 0
    /\ clock = 0
    /\ task = <<>>
    /\ hist = <<>>
    /\ lastGood = {}

    /\ arg = NoValue
    /\ ret = NoValue
\* thread t's call returns res: it becomes the most recent call
Return(t, role, cands, res) ==
    /\ last' = [role |-> role, cands |-> cands, res |-> res]
    /\ seqK' = seqK + 1
    /\ sel' = [sel EXCEPT ![t] = Idle]

CallsStarted == seqK + Cardinality({t \in Threads : sel[t].pc # "idle"})

\* select_<role>(servers) is called by thread t: the list is filtered, and an
\* empty candidate list returns None at once (lines 42-44, 66-94)
StartSelect(t) ==
    /\ sel[t].pc = "idle"
    /\ CallsStarted < MaxCalls
    /\ \E servers \in SubLists(strategyTable) :
        LET role == callRole
            cands == Candidates(servers, role)
            overlap == \E u \in Threads \ {t} : sel[u].pc \in InSelect
        IN  /\ seqOK' = (seqOK /\ ~overlap /\ servers = strategyTable)
            /\ IF is_empty(cands)
               THEN Return(t, role, cands, None)
               ELSE /\ sel' = [sel EXCEPT ![t] =
                                  [pc |-> "cas", role |-> role, cands |-> cands]]
                    /\ UNCHANGED <<last, seqK>>
    /\ UNCHANGED <<overflow_checks, strategyTable, index, callRole,
                   mgrVars>>

    /\ UNCHANGED fnVars
\* index.compare_exchange(0, servers.len()) (lines 46-53)
SelectCas(t) ==
    /\ sel[t].pc = "cas"
    /\ index' = [index EXCEPT ![sel[t].role] =
                    CompareExchange(@, Len(sel[t].cands))]
    /\ sel' = [sel EXCEPT ![t].pc = "sub"]
    /\ UNCHANGED <<overflow_checks, strategyTable, callRole, last, seqK, seqOK,
                   mgrVars>>

    /\ UNCHANGED fnVars
\* let i = index.fetch_sub(1); servers.get(i - 1) (lines 54-56)
SelectFetchSub(t) ==
    /\ sel[t].pc = "sub"
    /\ LET i == index[sel[t].role]
       IN  /\ index' = [index EXCEPT ![sel[t].role] = FetchSub(@)]
           /\ IF IndexPanics(i, overflow_checks)
              THEN /\ sel' = [sel EXCEPT ![t] = Panicked]
                   /\ UNCHANGED <<last, seqK>>
              ELSE IF GetAt(sel[t].cands, i) # None
                   THEN Return(t, sel[t].role, sel[t].cands,
                               GetAt(sel[t].cands, i))
                   ELSE /\ sel' = [sel EXCEPT ![t].pc = "store"]
                        /\ UNCHANGED <<last, seqK>>
    /\ UNCHANGED <<overflow_checks, strategyTable, callRole, seqOK,
                   mgrVars>>

    /\ UNCHANGED fnVars
\* index.store(servers.len()); servers.last().cloned() (lines 58-60)
SelectStore(t) ==
    /\ sel[t].pc = "store"
    /\ index' = [index EXCEPT ![sel[t].role] = Len(sel[t].cands)]
    /\ Return(t, sel[t].role, sel[t].cands, LastOf(sel[t].cands))
    /\ UNCHANGED <<overflow_checks, strategyTable, callRole, seqOK,
                   mgrVars>>

    /\ UNCHANGED fnVars
(***************************************************************************)
(* ConnectionRegistry and RoutedConnectionManager.                         *)
(***************************************************************************)

\* two tasks call RoutedConnectionManager::get, once each: a guard holder and
\* a caller arriving meanwhile
Tasks == {1, 2}

\* the routing tables a router may answer with
Tables ==
    << RoutingTable(0, <<writer1, router0>>),
       RoutingTable(1, <<reader1, writer1, writer2, router0>>),
       RoutingTable(1, <<reader1, writer2>>) >>

\* the tables the manager may be constructed from
InitTables == {1, 2}

\* every server there is, in the order Registry iterates its keys
ServerOrder == <<reader1, reader2, writer1, writer2, router0>>
AllServers == Range(ServerOrder)

ServerSet(table) == Range(table.servers)

Keys(conn) == {s \in AllServers : conn[s] # 0}

\* ConnectionRegistry::build_registry with every create_pool succeeding:
\* one pool per server, in table order
RECURSIVE build_registry(_, _, _)
build_registry(servers, registry, pool) ==
    IF servers = <<>> THEN registry
    ELSE build_registry(Tail(servers),
                        [registry EXCEPT ![Head(servers)] = pool], pool + 1)

EmptyRegistry == [s \in AllServers |-> 0]

\* registry.insert(server.clone(), pool): the registry afterwards
registry_insert_dropped(registry, server, pool) == registry
registry_insert(registry, server, pool) == [registry EXCEPT ![server] = pool]

\* registry.contains_key(server)
contains_key_never(registry, server) == FALSE
contains_key(registry, server) == registry[server] # 0

\* ConnectionRegistry::servers: the keys currently registered
RECURSIVE KeysInOrder(_, _)
KeysInOrder(order, conn) ==
    IF order = <<>> THEN <<>>
    ELSE (IF conn[Head(order)] # 0 THEN <<Head(order)>> ELSE <<>>)
             \o KeysInOrder(Tail(order), conn)

servers(conn) == KeysInOrder(ServerOrder, conn)

\* ConnectionRegistry::get_pool: the pool registered for the server (0: None)
get_pool(conn, server) == conn[server]

\* ConnectionRegistry::mark_unavailable: the registry afterwards
mark_unavailable_kept(conn, server) == conn
mark_unavailable(conn, server) == [conn EXCEPT ![server] = 0]

\* registry.retain(|k, _| servers.contains(k)): the registry afterwards
retain_all(conn, table) == conn
retain(conn, table) ==
    [s \in AllServers |-> IF s \in ServerSet(table) THEN conn[s] ELSE 0]

\* create_pool(&self.config): a pool distinct from every pool still referenced
PoolsInUse ==
    {connections[s] : s \in AllServers} \cup {hist.conn[s] : s \in AllServers}
        \cup {task[u].pool : u \in Tasks}

create_pool_shared == IF 1 \in PoolsInUse THEN 1 ELSE 2
create_pool ==
    CHOOSE p \in 1..(2 * Cardinality(AllServers) + Cardinality(Tasks) + 1) :
        /\ p \notin PoolsInUse
        /\ \A q \in 1..(p - 1) : q \in PoolsInUse

\* now - *guard panics when it overflows and the build checks it
SubPanics(now, ct, checks) == now < ct /\ checks

\* now - *guard > self.ttl (u64 arithmetic)
ExpiredInverted(now, ct, t) == WrappingSub(now, ct) < t
Expired(now, ct, t) == WrappingSub(now, ct) > t

\* operation.unwrap_or(Operation::Write)
OpOfOrRead(operation) == IF operation = "None" THEN "Read" ELSE operation
OpOf(operation) == IF operation = "None" THEN "Write" ELSE operation

\* the role get selects for an operation (lines 112-119)
TargetRole(op) == IF op = "Write" THEN "WRITE" ELSE "READ"

\* skipped: update_if_expired found the guard taken and returned at once
IdleTask == [pc |-> "idle", now |-> 0, operation |-> "None", cand |-> None,
             snap |-> <<>>, rt |-> 0, k |-> 0, pool |-> 0, res |-> "none",
             skipped |-> FALSE]

NoHist == [conn |-> EmptyRegistry, ct |-> 0, evicted |-> FALSE]

\* pcs inside refresh_routing_table, and inside the reconciliation
InRefresh == {"rrt_select", "rrt_pool", "rrt_conn", "rrt_route"}
InReconcile == {"uie_insert", "uie_retain", "uie_commit"}

\* a get call that ended: its result, and for Ok the server and pool it used
DoneSwallowed(t, res, cand, pool) ==
    IF res \in {"ServerUnavailableError", "PoolError"}
    THEN [task[t] EXCEPT !.pc = "get_servers", !.now = 0]
    ELSE [IdleTask EXCEPT !.pc = "done", !.operation = task[t].operation,
                          !.res = res, !.cand = cand, !.pool = pool]
Done(t, res, cand, pool) ==
    [IdleTask EXCEPT !.pc = "done", !.operation = task[t].operation,
                     !.res = res, !.cand = cand, !.pool = pool]

\* mark_unavailable(server) while another task reconciles is a concurrent eviction
HistAfterEvict(server) ==
    IF connections[server] # 0 /\ \E u \in Tasks : task[u].pc \in InReconcile
    THEN [hist EXCEPT !.evicted = TRUE] ELSE hist

\* ConnectionRegistry::new and RoundRobinStrategy::new on the same table
Init ==
    /\ overflow_checks \in BOOLEAN
    /\ \E i \in InitTables :
        /\ strategyTable = Tables[i].servers
        /\ index = RoundRobinStrategyNew(Tables[i].servers)
        /\ connections = build_registry(Tables[i].servers, EmptyRegistry, 1)
        /\ ttl = Tables[i].ttl
        /\ lastGood = ServerSet(Tables[i])
    /\ sel = [t \in Threads |-> Idle]
    /\ last = NoCall
    /\ callRole = "READ"
    /\ seqK = 0
    /\ seqOK = TRUE
    /\ creation_time = 0
    /\ clock = 0
    /\ lock = 0
    /\ task = [t \in Tasks |-> IdleTask]
    /\ hist = NoHist

    /\ arg = NoValue
    /\ ret = NoValue
\* get is called; update_if_expired reads the clock, which never runs
\* backwards (lines 56-59)
StartGet(t) ==
    /\ task[t].pc = "idle"
    /\ \E now \in clock..MaxClock :
         /\ clock' = now
         /\ task' = [task EXCEPT ![t] = [IdleTask EXCEPT !.pc = "uie_lock",
                                                         !.now = now]]
    /\ UNCHANGED <<rrVars, connections, creation_time, ttl, lock, hist,
                   lastGood>>

    /\ UNCHANGED fnVars
\* futures::lock::Mutex::try_lock: Some(guard) exactly when the mutex is free
try_lock_never(l) == FALSE
try_lock_unguarded(l) == TRUE
try_lock(l) == l = 0

\* self.creation_time.try_lock() (line 61); when it fails the call returns Ok
UieTryLock(t) ==
    /\ task[t].pc = "uie_lock"
    /\ IF try_lock(lock)
       THEN /\ lock' = t
            /\ hist' = [conn |-> connections, ct |-> creation_time,
                        evicted |-> FALSE]
            /\ task' = [task EXCEPT ![t].pc = "uie_check"]
       ELSE /\ task' = [task EXCEPT ![t].pc = "get_servers", ![t].now = 0,
                                    ![t].skipped = TRUE]
            /\ UNCHANGED <<lock, hist>>
    /\ UNCHANGED <<rrVars, connections, creation_time, ttl, clock,
                   lastGood>>

    /\ UNCHANGED fnVars
\* if now - *guard > self.ttl (line 62): the refresh function is invoked, or
\* the guard is dropped and the call returns Ok; an overflow panics the task
UieCheck(t) ==
    /\ task[t].pc = "uie_check"
    /\ IF SubPanics(task[t].now, creation_time, overflow_checks)
       THEN /\ task' = [task EXCEPT ![t] = Done(t, "panicked", None, 0)]
            /\ lock' = 0
            /\ hist' = NoHist
       ELSE IF Expired(task[t].now, creation_time, ttl)
            THEN /\ task' = [task EXCEPT ![t].pc = "rrt_select"]
                 /\ UNCHANGED <<lock, hist>>
            ELSE /\ task' = [task EXCEPT ![t].pc = "get_servers", ![t].now = 0]
                 /\ lock' = 0
                 /\ hist' = NoHist
    /\ UNCHANGED <<rrVars, connections, creation_time, ttl, clock,
                   lastGood>>

    /\ UNCHANGED fnVars
\* refresh_routing_table: select_router(self.registry.servers()) (lines 51-54);
\* with no router left the error leaves update_if_expired through `?`
RrtSelect(t) ==
    /\ task[t].pc = "rrt_select"
    /\ LET r == select(select_router(servers(connections)), index["ROUTE"],
                       overflow_checks)
       IN  /\ index' = [index EXCEPT !["ROUTE"] = r.idx]
           /\ IF r.panic
              THEN /\ task' = [task EXCEPT ![t] = Done(t, "panicked", None, 0)]
                   /\ lock' = 0
                   /\ hist' = NoHist
              ELSE IF r.res = None
                   THEN /\ task' = [task EXCEPT ![t] =
                                       Done(t, "ServerUnavailableError", None, 0)]
                        /\ lock' = 0
                        /\ hist' = NoHist
                   ELSE /\ task' = [task EXCEPT ![t].pc = "rrt_pool",
                                                ![t].cand = r.res]
                        /\ UNCHANGED <<lock, hist>>
    /\ UNCHANGED <<overflow_checks, strategyTable, sel, last, callRole, seqK,
                   seqOK, connections, creation_time, ttl, clock,
                   lastGood>>

    /\ UNCHANGED fnVars
\* self.registry.get_pool(&router) (lines 55, 87-92)
RrtGetPool(t) ==
    /\ task[t].pc = "rrt_pool"
    /\ LET p == get_pool(connections, task[t].cand[1])
       IN  IF p # 0
           THEN task' = [task EXCEPT ![t].pc = "rrt_conn", ![t].pool = p]
           ELSE task' = [task EXCEPT ![t].pc = "rrt_select", ![t].cand = None]
    /\ UNCHANGED <<rrVars, connections, creation_time, ttl, lock,
                   clock, hist, lastGood>>

    /\ UNCHANGED fnVars
\* pool.get().await (line 56): Ok, then self.bookmarks.lock().await (line 61);
\* Err marks the router unavailable (lines 80-81)
RrtConn(t) ==
    /\ task[t].pc = "rrt_conn"
    /\ \/ /\ \A u \in Tasks : task[u].pc # "rrt_route"
          /\ task' = [task EXCEPT ![t].pc = "rrt_route"]
          /\ UNCHANGED <<connections, hist>>
       \/ /\ connections' = mark_unavailable(connections, task[t].cand[1])
          /\ hist' = HistAfterEvict(task[t].cand[1])
          /\ task' = [task EXCEPT ![t].pc = "rrt_select", ![t].cand = None,
                                  ![t].pool = 0]
    /\ UNCHANGED <<rrVars, creation_time, ttl, lock, clock, lastGood>>

    /\ UNCHANGED fnVars
\* connection.route(route).await (lines 66-79): Ok(rt) returns the table to
\* update_if_expired, Err marks the router unavailable
RrtRoute(t) ==
    /\ task[t].pc = "rrt_route"
    /\ \/ /\ \E i \in 1..Len(Tables) :
               task' = [task EXCEPT ![t].pc = "uie_insert", ![t].cand = None,
                                    ![t].pool = 0, ![t].rt = i, ![t].k = 1]
          /\ UNCHANGED <<connections, hist>>
       \/ /\ connections' = mark_unavailable(connections, task[t].cand[1])
          /\ hist' = HistAfterEvict(task[t].cand[1])
          /\ task' = [task EXCEPT ![t].pc = "rrt_select", ![t].cand = None,
                                  ![t].pool = 0]
    /\ UNCHANGED <<rrVars, creation_time, ttl, lock, clock, lastGood>>

    /\ UNCHANGED fnVars
\* one iteration of `for server in servers.iter()` (lines 68-73): a server
\* already registered is skipped; otherwise create_pool succeeds and the
\* server is inserted, or fails and the error leaves through `?`
UieInsert(t) ==
    /\ task[t].pc = "uie_insert"
    /\ LET table == Tables[task[t].rt]
           server == table.servers[task[t].k]
           next == IF task[t].k < Len(table.servers)
                   THEN [task EXCEPT ![t].k = @ + 1]
                   ELSE [task EXCEPT ![t].pc = "uie_retain", ![t].k = 0]
       IN  IF contains_key(connections, server)
           THEN /\ task' = next
                /\ UNCHANGED <<connections, lock, hist>>
           ELSE \/ /\ connections' = registry_insert(connections, server,
                                                  create_pool)
                   /\ task' = next
                   /\ UNCHANGED <<lock, hist>>
                \/ /\ task' = [task EXCEPT ![t] = Done(t, "PoolError", None, 0)]
                   /\ lock' = 0
                   /\ hist' = NoHist
                   /\ UNCHANGED connections
    /\ UNCHANGED <<rrVars, creation_time, ttl, clock, lastGood>>

    /\ UNCHANGED fnVars
\* registry.retain(|k, _| servers.contains(k)) (line 74)
UieRetain(t) ==
    /\ task[t].pc = "uie_retain"
    /\ connections' = retain(connections, Tables[task[t].rt])
    /\ task' = [task EXCEPT ![t].pc = "uie_commit"]
    /\ UNCHANGED <<rrVars, creation_time, ttl, lock, clock, hist,
                   lastGood>>

    /\ UNCHANGED fnVars
\* the timestamp update_if_expired stores on success
CommitTime(now, ct) == now

\* *guard = now; the guard is dropped and the call returns Ok (lines 76-79)
UieCommit(t) ==
    /\ task[t].pc = "uie_commit"
    /\ creation_time' = CommitTime(task[t].now, creation_time)
    /\ lock' = 0
    /\ hist' = NoHist
    /\ lastGood' = ServerSet(Tables[task[t].rt])
    /\ task' = [task EXCEPT ![t].pc = "get_servers", ![t].rt = 0,
                            ![t].now = 0]
    /\ UNCHANGED <<rrVars, connections, ttl, clock>>

    /\ UNCHANGED fnVars
\* the operation get was called with comes into play (line 110);
\* let available_servers = self.registry.servers() (line 111)
GetServers(t) ==
    /\ task[t].pc = "get_servers"
    /\ \E operation \in {"None", "Read", "Write"} :
         task' = [task EXCEPT ![t].pc = "get_select",
                              ![t].skipped = FALSE,
                              ![t].operation = operation,
                              ![t].snap = servers(connections)]
    /\ UNCHANGED <<rrVars, connections, creation_time, ttl, lock,
                   clock, hist, lastGood>>

    /\ UNCHANGED fnVars
\* select_writer / select_reader on available_servers (lines 112-119); with
\* no candidate the call fails (lines 141-143)
GetSelect(t) ==
    /\ task[t].pc = "get_select"
    /\ LET role == TargetRole(OpOf(task[t].operation))
           r == select(Candidates(task[t].snap, role), index[role],
                       overflow_checks)
       IN  /\ index' = [index EXCEPT ![role] = r.idx]
           /\ IF r.panic
              THEN task' = [task EXCEPT ![t] = Done(t, "panicked", None, 0)]
              ELSE IF r.res = None
                   THEN task' = [task EXCEPT ![t] =
                                    Done(t, "RoutingTableRefreshFailed", None, 0)]
                   ELSE task' = [task EXCEPT ![t].pc = "get_pool",
                                             ![t].cand = r.res]
    /\ UNCHANGED <<overflow_checks, strategyTable, sel, last, callRole, seqK,
                   seqOK, connections, creation_time, ttl, lock,
                   clock, hist, lastGood>>

    /\ UNCHANGED fnVars
\* self.registry.get_pool(&server) (lines 120, 133-139)
GetPool(t) ==
    /\ task[t].pc = "get_pool"
    /\ LET p == get_pool(connections, task[t].cand[1])
       IN  IF p # 0
           THEN task' = [task EXCEPT ![t].pc = "get_conn", ![t].pool = p]
           ELSE task' = [task EXCEPT ![t].pc = "get_select", ![t].cand = None]
    /\ UNCHANGED <<rrVars, connections, creation_time, ttl, lock,
                   clock, hist, lastGood>>

    /\ UNCHANGED fnVars
\* pool.get().await (lines 121-131): Ok returns the connection, Err marks
\* the server unavailable and continues the loop
GetConn(t) ==
    /\ task[t].pc = "get_conn"
    /\ \/ /\ task' = [task EXCEPT ![t] =
                         Done(t, "Ok", task[t].cand, task[t].pool)]
          /\ UNCHANGED <<connections, hist>>
       \/ /\ connections' = mark_unavailable(connections, task[t].cand[1])
          /\ hist' = HistAfterEvict(task[t].cand[1])
          /\ task' = [task EXCEPT ![t].pc = "get_select", ![t].cand = None,
                                  ![t].pool = 0]
    /\ UNCHANGED <<rrVars, creation_time, ttl, lock, clock, lastGood>>

    /\ UNCHANGED fnVars
TaskStep(t) ==
    \/ StartGet(t)
    \/ UieTryLock(t)
    \/ UieCheck(t)
    \/ RrtSelect(t)
    \/ RrtGetPool(t)
    \/ RrtConn(t)
    \/ RrtRoute(t)
    \/ UieInsert(t)
    \/ UieRetain(t)
    \/ UieCommit(t)
    \/ GetServers(t)
    \/ GetSelect(t)
    \/ GetPool(t)
    \/ GetConn(t)

Next == \E t \in Tasks : TaskStep(t)

Spec == Init /\ [][Next]_vars

\* every task that can take a step eventually takes one
FairSpec == Spec /\ \A t \in Tasks : WF_vars(TaskStep(t))

\* what the get loops of other callers do to the registry meanwhile: a
\* reader or writer whose pool failed them is marked unavailable (line 129)
Evict ==
    /\ \E s \in AllServers :
          /\ s.role # "ROUTE"
          /\ connections[s] # 0
          /\ connections' = mark_unavailable(connections, s)
          /\ hist' = HistAfterEvict(s)
    /\ UNCHANGED <<rrVars, creation_time, ttl, lock, clock, task, lastGood>>

    /\ UNCHANGED fnVars
NextSolo == TaskStep(1) \/ Evict

\* one get call, scheduled again and again, among evictions by other callers
FairSolo == Init /\ [][NextSolo]_vars /\ WF_vars(TaskStep(1))

\* the routing tables ConnectionRegistry::new is called with: the table of
\* tests::test_available_servers with any of its servers left out, and tables
\* naming a server twice
NewTables ==
    SubLists(<<reader1, reader2, writer1, writer2, router0>>)
        \cup {<<reader1, reader1>>, <<writer1, router0, writer1>>}

\* ConnectionRegistry::new is entered: no registry exists yet; hist holds the
\* locals of new and build_registry
InitNew ==
    /\ overflow_checks \in BOOLEAN
    /\ \E t \in {0, 1} : \E s \in NewTables :
          hist = [pc |-> "build", rt |-> RoutingTable(t, s), k |-> 1,
                  registry |-> EmptyRegistry]
    /\ clock \in 0..MaxClock
    /\ connections = <<>>
    /\ creation_time = 0
    /\ ttl = 0
    /\ lock = 0
    /\ task = <<>>
    /\ lastGood = {}
    /\ strategyTable = <<>>
    /\ index = RoundRobinStrategyNew(<<>>)
    /\ sel = [t \in Threads |-> Idle]
    /\ last = NoCall
    /\ callRole = "READ"
    /\ seqK = 0
    /\ seqOK = TRUE

    /\ arg = NoValue
    /\ ret = NoValue
\* one iteration of build_registry's loop (lines 45-47): create_pool succeeds
\* and the server is inserted, or fails and the error leaves new through `?`
NewInsert ==
    /\ hist.pc = "build"
    /\ hist.k <= Len(hist.rt.servers)
    /\ \/ hist' = [hist EXCEPT
                      !.registry = registry_insert(@, hist.rt.servers[hist.k],
                                                   hist.k),
                      !.k = @ + 1]
       \/ hist' = [hist EXCEPT !.pc = "err"]
    /\ UNCHANGED <<rrVars, connections, creation_time, ttl, lock, clock, task,
                   lastGood>>

    /\ UNCHANGED fnVars
\* Ok(ConnectionRegistry { .. }) (lines 26-36): the registry built, the
\* table's ttl and the clock as read now
NewOk ==
    /\ hist.pc = "build"
    /\ hist.k > Len(hist.rt.servers)
    /\ \E now \in clock..MaxClock :
          /\ clock' = now
          /\ creation_time' = now
    /\ ttl' = hist.rt.ttl
    /\ connections' = hist.registry
    /\ hist' = [hist EXCEPT !.pc = "ok"]
    /\ UNCHANGED <<rrVars, lock, task, lastGood>>

    /\ UNCHANGED fnVars
NextNew == NewInsert \/ NewOk

SpecNew == InitNew /\ [][NextNew]_vars

(***************************************************************************)
(* Route request and response (routing/mod.rs, bolt/request/route.rs).     *)
(***************************************************************************)

\* the rest of the program is not running
NoStrategy ==
    /\ overflow_checks = FALSE
    /\ strategyTable = <<>>
    /\ index = RoundRobinStrategyNew(<<>>)
    /\ sel = [t \in Threads |-> Idle]
    /\ last = NoCall
    /\ callRole = "READ"
    /\ seqK = 0
    /\ seqOK = TRUE

NoManager ==
    /\ connections = <<>>
    /\ creation_time = 0
    /\ ttl = 0
    /\ lock = 0
    /\ clock = 0
    /\ task = <<>>
    /\ hist = <<>>
    /\ lastGood = {}

\* every list over a set of at most n elements
RECURSIVE ListsUpTo(_, _)
ListsUpTo(S, n) ==
    IF n = 0 THEN {<<>>}
    ELSE LET shorter == ListsUpTo(S, n - 1)
         IN  shorter \cup {<<x>> \o l : x \in S, l \in shorter}

\* Routing::No, and Routing::Yes(context) for some contexts
Routings ==
    { [yes |-> FALSE, context |-> <<>>],
      [yes |-> TRUE, context |-> <<>>],
      [yes |-> TRUE, context |-> << <<"address", "localhost:7687">> >>],
      [yes |-> TRUE, context |-> << <<"address", "localhost:7687">>,
                                    <<"region", "eu">> >>] }

\* Option<Database>: None, Some("neo4j"), Some("")
Databases == {None, Some("neo4j"), Some("")}

\* the Route requests RouteBuilder builds (lines 84-107)
Routes ==
    { [kind |-> "Route", routing |-> r, bookmarks |-> b, db |-> d] :
        r \in Routings,
        b \in ListsUpTo({"bookmark", "bookmark2"}, MaxBookmarks),
        d \in Databases }

\* the variant index and the field count serialize_struct_variant is given
RouteTag == 102
RouteLen == 3

\* impl Serialize for Routing: none, or a map of the entries in order
serialize_routing(routing) ==
    IF routing.yes
    THEN [kind |-> "map", len |-> Len(routing.context),
          entries |-> routing.context]
    ELSE [kind |-> "none"]

\* Vec<&str> serializes as a sequence of strings
serialize_bookmarks(bookmarks) == [kind |-> "seq", items |-> bookmarks]

serialize_str(str) == [kind |-> "str", val |-> str]

\* a field of the structure
Field(name, value) == [name |-> name, value |-> value]

\* impl Serialize for Route: the serializer calls, in order
serialize_route_skip_db(route) ==
    [kind |-> "struct_variant", name |-> "Request", tag |-> RouteTag,
     variant |-> "ROUTE", len |-> RouteLen,
     fields |-> << Field("routing", serialize_routing(route.routing)),
                   Field("bookmarks", serialize_bookmarks(route.bookmarks)) >>
                \o (IF route.db # None
                    THEN << Field("db", serialize_str(route.db[1])) >>
                    ELSE << >>)]

serialize_route(route) ==
    [kind |-> "struct_variant", name |-> "Request", tag |-> RouteTag,
     variant |-> "ROUTE", len |-> RouteLen,
     fields |-> << Field("routing", serialize_routing(route.routing)),
                   Field("bookmarks", serialize_bookmarks(route.bookmarks)),
                   IF route.db # None
                   THEN Field("db", serialize_str(route.db[1]))
                   ELSE Field("db", serialize_str("")) >>]

InitRoute ==
    /\ NoStrategy
    /\ NoManager
    /\ arg \in Routes
    /\ ret = NoValue

\* route.to_bytes(): the request is serialized
SerializeRoute ==
    /\ arg.kind = "Route"
    /\ ret = NoValue
    /\ ret' = serialize_route(arg)
    /\ UNCHANGED <<rrVars, mgrVars, arg>>

NextRoute == SerializeRoute

SpecRoute == InitRoute /\ [][NextRoute]_vars

\* a map holding the entries of m whose keys are in D
Restrict(m, D) == [k \in D \cap DOMAIN m |-> m[k]]

\* server entries of a response: complete, or with keys missing
ServerMaps ==
    { Restrict(m, D) :
        m \in { [addresses |-> <<"localhost:7687">>, role |-> "ROUTE"],
                [addresses |-> <<"host1:7687", "host1:7688">>,
                 role |-> "READ"] },
        D \in SUBSET {"addresses", "role"} }

\* the value of "rt": complete, or with keys missing
RtMaps ==
    { Restrict(m, D) :
        m \in [ttl : {0, 1000}, db : {"neo4j"},
               servers : ListsUpTo(ServerMaps, MaxServers)],
        D \in SUBSET {"ttl", "db", "servers"} }

\* the response maps: {"rt": ..}, or a map without "rt"
Responses ==
    { [kind |-> "Response", map |-> Restrict([rt |-> m], D)] :
        m \in RtMaps, D \in {{"rt"}, {}} }

Ok(v) == [ok |-> TRUE, val |-> v]
Err(field) == [ok |-> FALSE, error |-> field]

\* #[derive(Deserialize)] struct Server: both fields are required
parse_server(m) ==
    IF "addresses" \notin DOMAIN m THEN Err("addresses")
    ELSE IF "role" \notin DOMAIN m THEN Err("role")
    ELSE Ok([addresses |-> m.addresses, role |-> m.role])

\* Vec<Server>: the first element that fails to parse fails the list
RECURSIVE parse_servers(_)
parse_servers(l) ==
    IF l = <<>> THEN Ok(<<>>)
    ELSE LET head == parse_server(Head(l))
             rest == parse_servers(Tail(l))
         IN  IF ~head.ok THEN head
             ELSE IF ~rest.ok THEN rest
             ELSE Ok(<<head.val>> \o rest.val)

\* #[derive(Deserialize)] struct RoutingTable: ttl and servers are required,
\* db: Option<Database> is None when missing
parse_routing_table_default_ttl(m) ==
    IF "servers" \notin DOMAIN m THEN Err("servers")
    ELSE IF ~parse_servers(m.servers).ok THEN parse_servers(m.servers)
    ELSE Ok([ttl |-> IF "ttl" \in DOMAIN m THEN m.ttl ELSE 0,
             db |-> IF "db" \in DOMAIN m THEN Some(m.db) ELSE None,
             servers |-> parse_servers(m.servers).val])

parse_routing_table(m) ==
    IF "ttl" \notin DOMAIN m THEN Err("ttl")
    ELSE IF "servers" \notin DOMAIN m THEN Err("servers")
    ELSE IF ~parse_servers(m.servers).ok THEN parse_servers(m.servers)
    ELSE Ok([ttl |-> m.ttl,
             db |-> IF "db" \in DOMAIN m THEN Some(m.db) ELSE None,
             servers |-> parse_servers(m.servers).val])

\* #[derive(Deserialize)] struct Response { rt: RoutingTable }
parse_response(m) ==
    IF "rt" \notin DOMAIN m THEN Err("rt")
    ELSE IF ~parse_routing_table(m.rt).ok THEN parse_routing_table(m.rt)
    ELSE Ok([rt |-> parse_routing_table(m.rt).val])

InitParse ==
    /\ NoStrategy
    /\ NoManager
    /\ arg \in Responses
    /\ ret = NoValue

\* Response::parse(data)
ParseResponse ==
    /\ arg.kind = "Response"
    /\ ret = NoValue
    /\ ret' = parse_response(arg.map)
    /\ UNCHANGED <<rrVars, mgrVars, arg>>

NextParse == ParseResponse

SpecParse == InitParse /\ [][NextParse]_vars

(***************************************************************************)
(* ConfigBuilder (config.rs).                                              *)
(***************************************************************************)
DEFAULT_FETCH_SIZE == 200
DEFAULT_MAX_CONNECTIONS == 16

\* impl Default for ConfigBuilder; called: the setters called so far
ConfigBuilderDefault ==
    [kind |-> "ConfigBuilder", uri |-> None, user |-> None, password |-> None,
     db |-> None, max_connections |-> DEFAULT_MAX_CONNECTIONS,
     fetch_size |-> DEFAULT_FETCH_SIZE, tls_config |-> "None",
     backoff_config |-> Some("default"), called |-> {}]

\* ConfigBuilder::build
build_password_optional(b) ==
    IF b.uri # None /\ b.user # None
    THEN Ok([uri |-> b.uri[1], user |-> b.user[1],
             password |-> IF b.password # None THEN b.password[1] ELSE "",
             fetch_size |-> b.fetch_size,
             max_connections |-> b.max_connections, db |-> b.db,
             tls_config |-> b.tls_config, backoff |-> b.backoff_config])
    ELSE Err("InvalidConfig")

build(b) ==
    IF b.uri # None /\ b.user # None /\ b.password # None
    THEN Ok([uri |-> b.uri[1], user |-> b.user[1],
             password |-> b.password[1], fetch_size |-> b.fetch_size,
             max_connections |-> b.max_connections, db |-> b.db,
             tls_config |-> b.tls_config, backoff |-> b.backoff_config])
    ELSE Err("InvalidConfig")

InitConfig ==
    /\ NoStrategy
    /\ NoManager
    /\ arg = ConfigBuilderDefault
    /\ ret = NoValue

\* a setter is called on the builder not yet built
Setter(name, value) ==
    /\ arg.kind = "ConfigBuilder"
    /\ ret = NoValue
    /\ name \notin arg.called
    /\ arg' = [arg EXCEPT ![name] = value, !.called = @ \cup {name}]
    /\ UNCHANGED <<rrVars, mgrVars, ret>>

SetUri == Setter("uri", Some("127.0.0.1:7687"))
SetUser == Setter("user", Some("some_user"))
SetPassword == Setter("password", Some("some_password"))
SetDb == Setter("db", Some("some_db"))
SetFetchSize == \E n \in {10, DEFAULT_FETCH_SIZE} : Setter("fetch_size", n)
SetMaxConnections ==
    \E n \in {5, DEFAULT_MAX_CONNECTIONS} : Setter("max_connections", n)
SkipSslValidation == Setter("tls_config", "NoSSLValidation")
WithBackoff == Setter("backoff_config", None)

\* builder.build()
Build ==
    /\ arg.kind = "ConfigBuilder"
    /\ ret = NoValue
    /\ ret' = build(arg)
    /\ UNCHANGED <<rrVars, mgrVars, arg>>

NextConfig ==
    \/ SetUri
    \/ SetUser
    \/ SetPassword
    \/ SetDb
    \/ SetFetchSize
    \/ SetMaxConnections
    \/ SkipSslValidation
    \/ WithBackoff
    \/ Build

SpecConfig == InitConfig /\ [][NextConfig]_vars

NextRR ==
    \E t \in Threads :
        \/ StartSelect(t)
        \/ SelectCas(t)
        \/ SelectFetchSub(t)
        \/ SelectStore(t)

SpecRR == InitRR /\ [][NextRR]_vars

(***************************************************************************)
(* Properties.                                                             *)
(***************************************************************************)

\* the candidates of the role under call in the table the strategy was built from
TableCandidates == Candidates(strategyTable, callRole)

\* C1: sequential calls of select_<role> on the table the strategy was built
\* from, N >= 1 servers of the role: the k-th call returns the candidate at
\* index N-1 - ((k-1) mod N), i.e. N-1, N-2, ..., 0 and then N-1 again.
C1_RoundRobinOrder ==
    (last.role # "none" /\ seqOK /\ Len(TableCandidates) >= 1) =>
        LET N == Len(TableCandidates)
        IN  last.res = Some(TableCandidates[N - ((seqK - 1) % N)])

\* C1 witness: the (N+1)-th sequential call of a role with N >= 2 servers returned
C1_Witness ==
    /\ seqOK
    /\ Len(TableCandidates) >= 2
    /\ seqK = Len(TableCandidates) + 1
    /\ last.res = Some(TableCandidates[Len(TableCandidates)])

\* C2: every get call terminates (returns a connection or an error).
C2_GetTerminates == \A t \in Tasks : <>(task[t].pc = "done")

\* C3: at most one invocation of the refresh function is in flight.
C3_SingleFlight == Cardinality({t \in Tasks : task[t].pc \in InRefresh}) <= 1

\* C3 witness: a refresh is in flight while another task, whose clock reading
\* is past the ttl as well, is about to try the guard
C3_Witness ==
    \E t, u \in Tasks :
        /\ t # u
        /\ task[t].pc \in InRefresh
        /\ task[u].pc = "uie_lock"
        /\ task[u].now - creation_time > ttl

\* C4: a caller that finds the guard held returns Ok in that very step (it is
\* never blocked), without invoking the refresh function and without changing
\* the registry, the timestamp or the guard, and then takes its snapshot from
\* the registry as it is.
C4_LateCallerSkips ==
    /\ [](\A t \in Tasks : task[t].pc = "uie_lock" => ENABLED UieTryLock(t))
    /\ [][\A t \in Tasks :
            /\ (task[t].pc = "uie_lock" /\ lock # 0 /\ task'[t] # task[t]) =>
                  /\ task'[t].pc = "get_servers"
                  /\ connections' = connections
                  /\ creation_time' = creation_time
                  /\ lock' = lock
            /\ (task[t].pc = "get_servers" /\ task[t].skipped
                    /\ task'[t] # task[t]) =>
                  task'[t].snap = servers(connections)]_vars

\* C4 witness: a caller has returned from update_if_expired because the guard
\* was taken, and the holder is still refreshing
C4_Witness ==
    \E t, u \in Tasks :
        /\ lock = t
        /\ task[t].pc \in InRefresh
        /\ task[u].pc = "get_servers"
        /\ task[u].skipped

\* C5: when the refresh function returns an error, or pool creation fails
\* during reconciliation, the registry's server-to-pool map on return is the
\* one the call found when it took the guard.
C5_FailedRefreshKeepsRegistry ==
    [][\A t \in Tasks :
          (task[t].pc \in {"rrt_select", "uie_insert"}
              /\ task'[t].res \in {"ServerUnavailableError", "PoolError"}) =>
              connections' = hist.conn]_vars

\* C6: every key of the registry belongs to the server set of the last refresh
\* that completed (of the initial table if none did); stated for the states in
\* which no refresh is in progress.
C6_KeysWithinLastRefresh == lock = 0 => Keys(connections) \subseteq lastGood

\* C7: update_if_expired with now - creation_time <= ttl never invokes the
\* refresh function, changes nothing and returns Ok.
C7_NotExpiredIsNoOp ==
    [][\A t \in Tasks :
          (task[t].pc = "uie_check" /\ task'[t] # task[t]
              /\ task[t].now - creation_time <= ttl) =>
              /\ task'[t].pc = "get_servers"
              /\ connections' = connections
              /\ creation_time' = creation_time]_vars

\* C8: an expired update_if_expired whose refresh and pool creations succeed,
\* with no concurrent eviction, returns with the registry's key set equal to
\* the new table's server set and the timestamp advanced to its clock reading.
C8_RefreshReconciles ==
    [][\A t \in Tasks :
          (task[t].pc = "uie_commit" /\ task'[t] # task[t] /\ ~hist.evicted
              /\ task[t].now - creation_time > ttl) =>
              /\ task'[t].pc = "get_servers"
              /\ Keys(connections') = ServerSet(Tables[task[t].rt])
              /\ creation_time' = task[t].now
              /\ creation_time' > creation_time]_vars

\* C8 witness: a refresh completed that added servers and pruned others
C8_Witness ==
    /\ creation_time > 0
    /\ lock = 0
    /\ Keys(connections) = lastGood
    /\ lastGood \ Range(strategyTable) # {}
    /\ Range(strategyTable) \ lastGood # {}

\* C9: when the refresh function fails, the call ends with that error, the
\* guard is free and the timestamp is the one the call found; a call whose
\* clock reading is past the ttl invokes the refresh function (again).
C9_RefreshErrorRetried ==
    [][\A t \in Tasks :
          /\ (task[t].pc = "rrt_select" /\ task'[t].pc = "done"
                  /\ task'[t].res # "panicked") =>
                /\ task'[t].res = "ServerUnavailableError"
                /\ creation_time' = hist.ct
                /\ creation_time' = creation_time
                /\ lock' = 0
          /\ (task[t].pc = "uie_check" /\ task'[t] # task[t]
                  /\ task[t].now - creation_time > ttl) =>
                task'[t].pc = "rrt_select"]_vars

\* C9 witness: after a call ended with the refresh error, the next call has
\* invoked the refresh function
C9_Witness ==
    \E t, u \in Tasks :
        /\ task[t].pc = "done"
        /\ task[t].res = "ServerUnavailableError"
        /\ task[u].pc = "rrt_select"

\* C10: no select call panics, and every call on a non-empty candidate list
\* returns an element of that list.
C10_NoPanicInBounds ==
    /\ \A t \in Threads : sel[t].pc # "panicked"
    /\ (last.role # "none" /\ last.cands # <<>>) =>
           (last.res # None /\ last.res[1] \in Range(last.cands))


\* C11: refresh_routing_table always terminates; it returns "No router
\* available" only when the registry holds no ROUTE server (and it leaves the
\* registry as it is in that step); a route exchange either returns a table to
\* update_if_expired, the registry untouched, or evicts the router and goes on.
C11_RefreshTerminates ==
    /\ \A t \in Tasks :
          (task[t].pc \in InRefresh) ~> (task[t].pc \notin InRefresh)
    /\ [][\A t \in Tasks :
            /\ (task[t].pc = "rrt_select"
                    /\ task'[t].res = "ServerUnavailableError") =>
                  /\ FilterRole(servers(connections), "ROUTE") = <<>>
                  /\ connections' = connections
            /\ (task[t].pc = "rrt_route" /\ task'[t] # task[t]) =>
                  \/ /\ task'[t].pc = "uie_insert"
                     /\ task'[t].rt \in 1..Len(Tables)
                     /\ connections' = connections
                  \/ /\ task'[t].pc = "rrt_select"
                     /\ connections'[task[t].cand[1]] = 0]_vars

\* C11 witness: the refresh function gave up after the router it was built
\* with had been evicted
C11_Witness ==
    \E t \in Tasks :
        /\ task[t].res = "ServerUnavailableError"
        /\ router0 \in Range(strategyTable)
        /\ connections[router0] = 0
        /\ lastGood = Range(strategyTable)

\* the registry holds no WRITE server
NoWriter(conn) == FilterRole(servers(conn), "WRITE") = <<>>

\* C12 as stated: a get call made while no WRITE server is registered attempts
\* no network call.  The operation is first read after update_if_expired
\* (line 110), so what the call does before is the same for Write: with no
\* WRITE server registered when it took the guard nor now, it does not go on
\* to acquire a connection from a router's pool.
C12_NoNetworkCall ==
    [][\A t \in Tasks :
          (task[t].pc = "rrt_pool" /\ NoWriter(hist.conn)
              /\ NoWriter(connections)) =>
              task'[t].pc # "rrt_conn"]_vars

\* C12 amended: once update_if_expired has returned, a get for Write (or for no
\* operation) that snapshots a registry without WRITE servers fails with the
\* "No server available" error in its next step, the operation kept, without
\* going through a pool acquisition and without touching the registry.
C12_NoWriterFails ==
    [][\A t \in Tasks :
          /\ (task[t].pc = "get_servers" /\ task'[t] # task[t]) =>
                /\ task'[t].pc = "get_select"
                /\ task'[t].snap = servers(connections)
                /\ connections' = connections
          /\ (task[t].pc = "get_select" /\ task'[t] # task[t]
                  /\ OpOf(task[t].operation) = "Write"
                  /\ FilterRole(task[t].snap, "WRITE") = <<>>) =>
                /\ task'[t].pc = "done"
                /\ task'[t].res = "RoutingTableRefreshFailed"
                /\ task'[t].operation = task[t].operation
                /\ connections' = connections]_vars

\* C12 witness: a get for Write failed on a registry whose only writer had
\* been evicted, readers still registered
C12_Witness ==
    \E t \in Tasks :
        /\ task[t].pc = "done"
        /\ task[t].res = "RoutingTableRefreshFailed"
        /\ task[t].operation = "Write"
        /\ NoWriter(connections)
        /\ FilterRole(servers(connections), "READ") # <<>>

\* C13 as stated: the candidate get selects is a writer exactly when the
\* operation passed is Write; for Read and for no operation it is a reader.
C13_WriterIffWrite ==
    [][\A t \in Tasks :
          (task[t].pc = "get_select" /\ task'[t].pc = "get_pool") =>
              /\ task'[t].cand[1].role \in {"READ", "WRITE"}
              /\ (task'[t].cand[1].role = "WRITE") <=>
                     (task[t].operation = "Write")]_vars

\* C13 amended: the candidate get selects is a writer of its snapshot exactly
\* when the operation passed is Write or no operation is passed; for Read it is
\* a reader of its snapshot.
C13_WriterIffWriteOrNone ==
    [][\A t \in Tasks :
          (task[t].pc = "get_select" /\ task'[t].pc = "get_pool") =>
              /\ task'[t].cand[1] \in Range(task[t].snap)
              /\ task'[t].cand[1].role \in {"READ", "WRITE"}
              /\ (task'[t].cand[1].role = "WRITE") <=>
                     (task[t].operation \in {"Write", "None"})
              /\ (task'[t].cand[1].role = "READ") <=>
                     (task[t].operation = "Read")]_vars

\* C13 witness: one call without an operation holds a writer candidate while
\* another, for Read, holds a reader candidate
C13_Witness ==
    \E t, u \in Tasks :
        /\ task[t].pc = "get_pool"
        /\ task[t].operation = "None"
        /\ task[t].cand[1].role = "WRITE"
        /\ task[u].pc = "get_pool"
        /\ task[u].operation = "Read"
        /\ task[u].cand[1].role = "READ"

\* C14: a select_<role> call on a list without a server of the role returns
\* None at once, however many calls were made and whatever the counter holds:
\* it never reaches the counter operations, never panics, and leaves every
\* counter as it is.
C14_AbsentRoleNone ==
    /\ [](\A t \in Threads : sel[t].pc \in InSelect => sel[t].cands # <<>>)
    /\ []((last.role # "none" /\ last.cands = <<>>) => last.res = None)
    /\ [][(seqK' = seqK + 1 /\ last'.cands = <<>>) =>
            /\ index' = index
            /\ last'.res = None
            /\ \A t \in Threads :
                  sel'[t].pc = "panicked" => sel[t].pc = "panicked"]_vars

\* C14 witness: after more than one call, a call on a list without the role
\* returned None while the role's counter held a value other than 0
C14_Witness ==
    /\ last.role # "none"
    /\ last.cands = <<>>
    /\ last.res = None
    /\ seqK >= 2
    /\ index[callRole] > 0

\* the counter values select can find: 0 up to the list length, and the
\* value a decrement of 0 wraps to
CounterValues == 0..Len(ServerOrder) \cup {UsizeMod - 1}

\* C15: a step that marks server s unavailable leaves the registry without s,
\* present before or not: get_pool(s) is None, servers() does not list s, the
\* size is one less exactly when s was present, every other entry is as it
\* was, select_* over servers() cannot return s whatever the counter, and
\* marking s again changes nothing.
C15_MarkUnavailable ==
    [][\A t \in Tasks :
          (task[t].pc \in {"rrt_conn", "rrt_route", "get_conn"}
              /\ task'[t].pc \in {"rrt_select", "get_select"}) =>
              LET s == task[t].cand[1]
              IN  /\ get_pool(connections', s) = 0
                  /\ s \notin Range(servers(connections'))
                  /\ Cardinality(Keys(connections')) =
                        Cardinality(Keys(connections))
                            - (IF get_pool(connections, s) # 0 THEN 1 ELSE 0)
                  /\ \A r \in AllServers \ {s} :
                        connections'[r] = connections[r]
                  /\ \A role \in Roles : \A c \in CounterValues :
                        select(Candidates(servers(connections'), role), c,
                               FALSE).res # Some(s)
                  /\ mark_unavailable(connections', s) = connections']_vars

\* C15 witness: one task has marked a server unavailable and another, holding
\* the same candidate, is about to mark it again
C15_Witness ==
    \E t, u \in Tasks :
        /\ t # u
        /\ task[t].pc = "get_select"
        /\ task[u].pc = "get_conn"
        /\ get_pool(connections, task[u].cand[1]) = 0
        /\ Cardinality(Keys(connections)) = Cardinality(lastGood) - 1

\* C16: when ConnectionRegistry::new returns Ok, the registry's keys are the
\* distinct servers of the table, each with a pool of its own, the ttl is the
\* table's and the timestamp is the clock as read; until then, and when a pool
\* creation failed, there is no registry.
C16_NewBuildsRegistry ==
    /\ hist.pc = "ok" =>
          /\ Keys(connections) = Range(hist.rt.servers)
          /\ \A s, r \in Keys(connections) :
                s # r => connections[s] # connections[r]
          /\ ttl = hist.rt.ttl
          /\ creation_time = clock
    /\ hist.pc # "ok" => connections = <<>>

\* C16 witness: new returned Ok for the table of 2 READ, 2 WRITE and 1 ROUTE
\* server, at a clock reading later than 0
C16_Witness ==
    /\ hist.pc = "ok"
    /\ Len(hist.rt.servers) = 5
    /\ Cardinality(Keys(connections)) = 5
    /\ creation_time > 0

\* C17: a serialized Route request is the structure with tag 0x66 and exactly
\* 3 fields, in the order routing context, bookmarks, database: the context's
\* entries in order (none for Routing::No), the bookmarks in order, and the
\* database name, the empty string when no database is set.
C17_RouteEncoding ==
    ret # NoValue =>
        /\ ret.kind = "struct_variant"
        /\ ret.tag = 6 * 16 + 6
        /\ ret.len = 3
        /\ Len(ret.fields) = 3
        /\ <<ret.fields[1].name, ret.fields[2].name, ret.fields[3].name>>
              = <<"routing", "bookmarks", "db">>
        /\ IF arg.routing.yes
           THEN /\ ret.fields[1].value.kind = "map"
                /\ ret.fields[1].value.entries = arg.routing.context
           ELSE ret.fields[1].value.kind = "none"
        /\ ret.fields[2].value.kind = "seq"
        /\ ret.fields[2].value.items = arg.bookmarks
        /\ ret.fields[3].value.kind = "str"
        /\ ret.fields[3].value.val =
              (IF arg.db = None THEN "" ELSE arg.db[1])

\* C17 witness: a request without a database, with two different bookmarks
\* and a routing context, has been serialized
C17_Witness ==
    /\ ret # NoValue
    /\ arg.db = None
    /\ arg.bookmarks = <<"bookmark2", "bookmark">>
    /\ arg.routing.yes
    /\ Len(arg.routing.context) = 2
    /\ ret.fields[3].value.val = ""

\* the response map has "rt" with "ttl" and "servers", and every server entry
\* has "addresses" and "role"
WellFormed(m) ==
    /\ "rt" \in DOMAIN m
    /\ {"ttl", "servers"} \subseteq DOMAIN m.rt
    /\ \A i \in 1..Len(m.rt.servers) :
          {"addresses", "role"} \subseteq DOMAIN m.rt.servers[i]

\* C18: parsing a well-formed response yields the table with the response's
\* ttl, its servers in order with their addresses and roles, and its db, absent
\* when the response has none; parsing any response with "rt", "ttl" or
\* "servers" missing, or a server without "addresses" or "role", is an error.
C18_ResponseDecoding ==
    (ret # NoValue /\ arg.kind = "Response") =>
        IF WellFormed(arg.map)
        THEN /\ ret.ok
             /\ ret.val.rt.ttl = arg.map.rt.ttl
             /\ Len(ret.val.rt.servers) = Len(arg.map.rt.servers)
             /\ \A i \in 1..Len(arg.map.rt.servers) :
                   /\ ret.val.rt.servers[i].addresses
                         = arg.map.rt.servers[i].addresses
                   /\ ret.val.rt.servers[i].role = arg.map.rt.servers[i].role
             /\ IF "db" \in DOMAIN arg.map.rt
                THEN ret.val.rt.db = Some(arg.map.rt.db)
                ELSE ret.val.rt.db = None
        ELSE ~ret.ok

\* C18 witness: a response without db, with two servers, has been parsed
C18_Witness ==
    /\ ret # NoValue
    /\ arg.kind = "Response"
    /\ WellFormed(arg.map)
    /\ "db" \notin DOMAIN arg.map.rt
    /\ Len(arg.map.rt.servers) = 2
    /\ arg.map.rt.servers[1] # arg.map.rt.servers[2]
    /\ ret.ok

\* C19: build returns a Config exactly when uri, user and password have all
\* been set, and the InvalidConfig error otherwise; the Config carries the
\* three values, and 200 and 16 for a fetch_size and a max_connections that
\* were not set.
C19_ConfigBuild ==
    (ret # NoValue /\ arg.kind = "ConfigBuilder") =>
        /\ ret.ok <=> {"uri", "user", "password"} \subseteq arg.called
        /\ ~ret.ok => ret.error = "InvalidConfig"
        /\ ret.ok =>
              /\ ret.val.uri = "127.0.0.1:7687"
              /\ ret.val.user = "some_user"
              /\ ret.val.password = "some_password"
              /\ "fetch_size" \notin arg.called => ret.val.fetch_size = 200
              /\ "fetch_size" \in arg.called =>
                    ret.val.fetch_size = arg.fetch_size
              /\ "max_connections" \notin arg.called =>
                    ret.val.max_connections = 16
              /\ "max_connections" \in arg.called =>
                    ret.val.max_connections = arg.max_connections

\* C19 witness: a builder with only uri, user and password set has been built
C19_Witness ==
    /\ ret # NoValue
    /\ arg.kind = "ConfigBuilder"
    /\ arg.called = {"uri", "user", "password"}
    /\ ret.ok
    /\ ret.val.fetch_size = 200
    /\ ret.val.max_connections = 16

\* the pcs of get's candidate loop
InGetLoop == {"get_select", "get_pool", "get_conn"}

\* a server of the role task t's get is after is registered
TargetRegistered(t) ==
    \E s \in Keys(connections) :
        s.role = TargetRole(OpOf(task[t].operation))

\* C20: a candidate whose pool acquisition fails is removed from the registry
\* before the next selection, and a get call does not stay in its loop for
\* ever while a server of its target role is registered: a server that can
\* deliver ends the call with a connection, one that cannot is tried and
\* removed.  So from any point of the loop with such a server registered, the
\* call ends or no server of the role is left registered.
C20_Failover ==
    /\ [][\A t \in Tasks :
            (task[t].pc = "get_conn" /\ task'[t].pc = "get_select") =>
                connections'[task[t].cand[1]] = 0]_vars
    /\ \A t \in Tasks :
          (task[t].pc \in InGetLoop /\ TargetRegistered(t))
              ~> (task[t].pc = "done" \/ ~TargetRegistered(t))


\* C21: a connection get returns comes from the pool get_pool found
\* registered for the selected candidate at lookup time, and that candidate
\* has the role the operation targets (WRITE for Write or no operation, READ
\* for Read): never a ROUTE server, never a server of the other role, never a
\* candidate whose lookup found no pool.
C21_ConnectionFromMatchingPool ==
    [][\A t \in Tasks :
          /\ (task[t].pc = "get_pool" /\ task'[t].pc = "get_conn") =>
                /\ connections[task[t].cand[1]] # 0
                /\ task'[t].pool = connections[task[t].cand[1]]
                /\ task'[t].cand = task[t].cand
          /\ (task[t].pc # "done" /\ task'[t].pc = "done"
                  /\ task'[t].res = "Ok") =>
                /\ task[t].pc = "get_conn"
                /\ task'[t].cand = task[t].cand
                /\ task'[t].pool = task[t].pool
                /\ task[t].pool # 0
                /\ task[t].cand[1].role =
                       TargetRole(OpOf(task[t].operation))
                /\ task[t].cand[1].role # "ROUTE"]_vars

\* C21 witness: one call returned a connection of a reader's pool, the other
\* a connection of a writer's pool
C21_Witness ==
    \E t, u \in Tasks :
        /\ task[t].pc = "done" /\ task[t].res = "Ok"
        /\ task[t].operation = "Read"
        /\ task[t].cand[1].role = "READ" /\ task[t].pool # 0
        /\ task[u].pc = "done" /\ task[u].res = "Ok"
        /\ task[u].operation = "Write"
        /\ task[u].cand[1].role = "WRITE" /\ task[u].pool # 0


\* C22: in a select call on a non-empty candidate list of size n, a
\* pre-decrement counter value i >= 1 with i - 1 >= n takes the fallback: the
\* call sets the counter to n and returns the last element; a following call
\* on a counter within 1..n returns the element at index counter - 1 and
\* leaves the counter one less, so the cycle goes on from index n - 1.
C22_ShrinkFallback ==
    [][\A t \in Threads :
          LET n == Len(sel[t].cands)
              i == index[sel[t].role]
          IN  /\ (sel[t].pc = "sub" /\ sel'[t] # sel[t] /\ i >= 1
                      /\ i - 1 >= n) =>
                    /\ n >= 1
                    /\ sel'[t].pc = "store"
                    /\ sel'[t].cands = sel[t].cands
                    /\ seqK' = seqK
              /\ (sel[t].pc = "store" /\ sel'[t] # sel[t]) =>
                    /\ index'[sel[t].role] = n
                    /\ last' = [role |-> sel[t].role, cands |-> sel[t].cands,
                                res |-> Some(sel[t].cands[n])]
                    /\ sel'[t].pc = "idle"
              /\ (sel[t].pc = "cas" /\ sel'[t] # sel[t] /\ i \in 1..n) =>
                    /\ index'[sel[t].role] = i
                    /\ sel'[t].pc = "sub"
              /\ (sel[t].pc = "sub" /\ sel'[t] # sel[t] /\ i \in 1..n) =>
                    /\ index'[sel[t].role] = i - 1
                    /\ last' = [role |-> sel[t].role, cands |-> sel[t].cands,
                                res |-> Some(sel[t].cands[i])]
                    /\ sel'[t].pc = "idle"]_vars

\* C22 witness: the only call made so far on a strategy built over three
\* readers was given a list of two readers: it found the counter at 3, took
\* the fallback, returned the last reader and left the counter at 2
C22_Witness ==
    /\ strategyTable = <<reader1, reader2, reader3>>
    /\ seqK = 1
    /\ \A t \in Threads : sel[t].pc = "idle"
    /\ last = [role |-> "READ", cands |-> <<reader1, reader2>>,
               res |-> Some(reader2)]
    /\ index["READ"] = 2


\* the errors a refresh can fail with: no router left, or create_pool failed
RefreshErrors == {"ServerUnavailableError", "PoolError"}

\* C23: when the refresh at the start of get fails (no router is left to ask,
\* or a pool cannot be created for a server of the new table), the call ends
\* in that step with the refresh error: it takes no snapshot, selects no
\* reader or writer, leaves the READ and WRITE counters and the registry as
\* they are; the selection loop is entered only after update_if_expired
\* returned Ok, and a call that ended stays ended.
C23_RefreshErrorEndsGet ==
    [][\A t \in Tasks :
          /\ (task[t].pc = "rrt_select" /\ task'[t] # task[t]
                  /\ select_router(servers(connections)) = <<>>) =>
                /\ task'[t].pc = "done"
                /\ task'[t].res = "ServerUnavailableError"
          /\ (task[t].pc = "uie_insert"
                  /\ task'[t].pc \notin {"uie_insert", "uie_retain"}) =>
                /\ task'[t].pc = "done"
                /\ task'[t].res = "PoolError"
          /\ (task[t].pc # "done" /\ task'[t].pc = "done"
                  /\ task'[t].res \in RefreshErrors) =>
                /\ task[t].pc \in {"rrt_select", "uie_insert"}
                /\ task[t].snap = <<>>
                /\ task'[t].cand = None /\ task'[t].pool = 0
                /\ index'["READ"] = index["READ"]
                /\ index'["WRITE"] = index["WRITE"]
                /\ connections' = connections
          /\ (task[t].pc # "get_servers" /\ task'[t].pc = "get_servers") =>
                task[t].pc \in {"uie_lock", "uie_check", "uie_commit"}
          /\ (task[t].pc \notin InGetLoop /\ task'[t].pc \in InGetLoop) =>
                task[t].pc = "get_servers"
          /\ task[t].pc = "done" => task'[t] = task[t]]_vars

\* C23 witness: a get call ended with the "No router available" error of its
\* refresh while a reader and a writer were still registered
C23_Witness ==
    \E t \in Tasks :
        /\ task[t].pc = "done"
        /\ task[t].res = "ServerUnavailableError"
        /\ connections[reader1] # 0
        /\ connections[writer1] # 0


\* no ROUTE server is registered
NoRouter == select_router(servers(connections)) = <<>>

\* C24 as stated: once no ROUTE server is registered and the ttl has elapsed,
\* every get call from then on fails with the "No router available" error:
\* a call that has just read the clock in such a state never gets to the
\* selection and ends with that error only.
C24_NoRouterAllCallsFail ==
    \A t \in Tasks :
        []((/\ task[t].pc = "uie_lock"
            /\ NoRouter
            /\ ~SubPanics(task[t].now, creation_time, overflow_checks)
            /\ Expired(task[t].now, creation_time, ttl)) =>
              [](/\ task[t].pc \notin {"get_servers"} \cup InGetLoop
                 /\ task[t].pc = "done" =>
                        task[t].res = "ServerUnavailableError"))


\* no ROUTE server is registered and no reconciliation is under way
RouterLost == NoRouter /\ \A u \in Tasks : task[u].pc \notin InReconcile

\* C24 amended: once no ROUTE server is registered and no reconciliation is
\* under way, that stays so for ever: no step registers a router, starts a
\* reconciliation or changes the timestamp or the ttl, whatever READ and WRITE
\* servers are registered; every get call that takes the guard and finds the
\* table expired asks for a router and ends with the "No router available"
\* error.  A call goes on to the selection only when it finds the guard taken
\* by another call, or the table not expired by its own clock reading.
C24_NoRouterNoRecovery ==
    [][RouterLost =>
          /\ RouterLost'
          /\ creation_time' = creation_time
          /\ ttl' = ttl
          /\ \A t \in Tasks :
                /\ (task[t].pc = "uie_check" /\ task'[t] # task[t]
                      /\ ~SubPanics(task[t].now, creation_time,
                                    overflow_checks)
                      /\ Expired(task[t].now, creation_time, ttl)) =>
                      task'[t].pc = "rrt_select"
                /\ (task[t].pc = "rrt_select" /\ task'[t] # task[t]) =>
                      /\ task'[t].pc = "done"
                      /\ task'[t].res = "ServerUnavailableError"
                /\ (task[t].pc \in {"uie_lock", "uie_check"} \cup InRefresh
                      /\ task'[t].pc = "get_servers") =>
                      \/ task'[t].skipped /\ lock # 0 /\ lock # t
                      \/ ~Expired(task[t].now, creation_time, ttl)]_vars

\* C24 witness: both calls took the guard in turn with no router registered
\* and ended with the "No router available" error, a writer still registered
C24_Witness ==
    /\ NoRouter
    /\ connections[writer1] # 0
    /\ \A t \in Tasks :
          /\ task[t].pc = "done"
          /\ task[t].res = "ServerUnavailableError"


\* the ttl of the routing table the manager was constructed from
InitialTtl ==
    Tables[CHOOSE i \in InitTables : Tables[i].servers = strategyTable].ttl

\* C25: the registry's ttl is the ttl of the table it was constructed from
\* and no step changes it, whatever ttl the tables of later refreshes carry;
\* the expiry test of every call compares now - creation_time against that
\* initial ttl.
C25_TtlFixed ==
    /\ [](ttl = InitialTtl)
    /\ [][/\ ttl' = ttl
          /\ \A t \in Tasks :
                (task[t].pc = "uie_check" /\ task'[t] # task[t]
                    /\ task'[t].res # "panicked") =>
                    (task'[t].pc = "rrt_select" <=>
                        WrappingSub(task[t].now, creation_time)
                            > InitialTtl)]_vars

\* C25 witness: a refresh stored a table whose ttl is 1 in a registry built
\* with ttl 0; the next call, one second after, finds the table expired
C25_Witness ==
    \E t \in Tasks :
        /\ InitialTtl = 0
        /\ lastGood = ServerSet(Tables[2])
        /\ Tables[2].ttl = 1
        /\ creation_time = 1
        /\ task[t].pc = "rrt_select"
        /\ task[t].now = 2
        /\ ttl = 0


\* the pcs at which a call holds the refresh guard
Guarded == {"uie_check"} \cup InRefresh \cup InReconcile

\* C26: the guard is held by a call exactly while it is between its
\* successful try_lock and its exit from update_if_expired; every exit (table
\* not expired, refresh done, refresh function error, create_pool error,
\* panic) frees it in the same step, so no ended call holds it; and a call
\* that tries the guard when no call is inside takes it and, finding the
\* table expired, starts a refresh.
C26_GuardReleased ==
    /\ [](\A t \in Tasks : (lock = t) <=> (task[t].pc \in Guarded))
    /\ [](lock = 0 \/ lock \in Tasks)
    /\ [][\A t \in Tasks :
            /\ (task[t].pc \in Guarded /\ task'[t].pc \notin Guarded) =>
                  /\ lock' = 0
                  /\ task'[t].pc \in {"get_servers", "done"}
                  /\ task'[t].pc = "done" =>
                        task'[t].res \in RefreshErrors \cup {"panicked"}
            /\ (task[t].pc = "uie_lock" /\ task'[t] # task[t]
                  /\ \A u \in Tasks : task[u].pc \notin Guarded) =>
                  /\ lock' = t
                  /\ task'[t].pc = "uie_check"
            /\ (task[t].pc = "uie_check" /\ task'[t] # task[t]
                  /\ ~SubPanics(task[t].now, creation_time, overflow_checks)
                  /\ Expired(task[t].now, creation_time, ttl)) =>
                  /\ task'[t].pc = "rrt_select"
                  /\ lock' = t]_vars

\* C26 witness: one call's refresh failed on create_pool and the call ended;
\* the other call then took the guard, found the table expired and is
\* refreshing
C26_Witness ==
    \E t, u \in Tasks :
        /\ task[u].pc = "done"
        /\ task[u].res = "PoolError"
        /\ task[t].pc \in InRefresh
        /\ lock = t


\* C27: a server absent from the registry becomes registered only in an
\* iteration of the reconciliation loop of update_if_expired, for the server
\* of the refreshed table that iteration is at, and with a pool created in
\* that step, distinct from every pool referenced before; no step of get's
\* loop or of refresh_routing_table, no mark_unavailable, get_pool or servers
\* adds a key, so an evicted server stays absent until such an iteration.
C27_KeysAddedByReconcileOnly ==
    [][\A s \in AllServers :
          (connections[s] = 0 /\ connections'[s] # 0) =>
              \E t \in Tasks :
                  /\ task[t].pc = "uie_insert"
                  /\ lock = t
                  /\ task'[t] # task[t]
                  /\ Tables[task[t].rt].servers[task[t].k] = s
                  /\ connections'[s] \notin PoolsInUse
                  /\ \A x \in AllServers \ {s} :
                        connections'[x] = connections[x]]_vars

\* C27 witness: a writer the registry was built with had been evicted when the
\* refresh began, and the reconciliation has registered it again
C27_Witness ==
    \E t \in Tasks :
        /\ task[t].pc \in InReconcile
        /\ writer1 \in Range(strategyTable)
        /\ hist.conn[writer1] = 0
        /\ connections[writer1] # 0


\* C28 as stated: when a refresh succeeds, every server that was registered
\* when the refresh began and is listed in the new table has the pool it had
\* then, and only servers absent then have a pool created meanwhile.
C28_RefreshKeepsPools ==
    [][\A t \in Tasks :
          (task[t].pc = "uie_commit" /\ task'[t] # task[t]) =>
              \A s \in ServerSet(Tables[task[t].rt]) :
                  /\ hist.conn[s] # 0 => connections'[s] = hist.conn[s]
                  /\ hist.conn[s] = 0 =>
                        connections'[s] \notin
                            {hist.conn[x] : x \in AllServers} \ {0}]_vars

\* C28 amended: the reconciliation of the guard holder changes a server's
\* entry in two ways only: an iteration of the insert loop that finds its
\* server absent gives it a newly created pool, and retain removes the servers
\* the new table does not list.  An iteration that finds its server
\* registered keeps the pool it finds, retain keeps every pool of a listed
\* server, and the commit changes no entry.  A server listed in the table and
\* registered when the refresh began ends with another pool, or with none,
\* only when it was evicted after the refresh began.
C28_ReconcileKeepsPresentPools ==
    [][/\ \A t \in Tasks :
          (task[t].pc \in InReconcile /\ task'[t] # task[t]) =>
              LET table == Tables[task[t].rt]
              IN  \A s \in AllServers :
                    /\ (task[t].pc = "uie_insert"
                          /\ (connections[s] # 0
                                \/ s # table.servers[task[t].k])) =>
                          connections'[s] = connections[s]
                    /\ (task[t].pc = "uie_insert" /\ connections[s] = 0
                          /\ connections'[s] # 0) =>
                          connections'[s] \notin PoolsInUse
                    /\ task[t].pc = "uie_retain" =>
                          connections'[s] =
                              IF s \in ServerSet(table) THEN connections[s]
                              ELSE 0
                    /\ task[t].pc = "uie_commit" =>
                          connections'[s] = connections[s]
       /\ \A s \in AllServers :
             connections'[s] \notin {connections[s], 0} =>
                 \E t \in Tasks :
                     /\ task[t].pc = "uie_insert" /\ task'[t] # task[t]
                     /\ connections[s] = 0]_vars

\* C28 witness: a refresh is about to return Ok on a registry in which a
\* listed server kept the pool it had when the refresh began and another
\* listed server, absent then, has a new one
C28_Witness ==
    \E t \in Tasks :
        /\ task[t].pc = "uie_commit"
        /\ \E s, x \in ServerSet(Tables[task[t].rt]) :
              /\ hist.conn[s] # 0
              /\ connections[s] = hist.conn[s]
              /\ hist.conn[x] = 0
              /\ connections[x] # 0

=============================================================================
